---- MODULE Spec2Model ----
(***************************************************************************)
(* Brand Tinder Swipe (src/app.py): the vote ledger kept in votes.csv, the *)
(* per-voter tally, the ranked report and the admin reset, together with   *)
(* the part of the Streamlit session flow that calls them.                 *)
(*                                                                         *)
(* The ledger is a CSV file that every operation reads with pd.read_csv    *)
(* and that save_vote rewrites in full with DataFrame.to_csv.  The file is *)
(* modelled by the cell texts it holds; a DataFrame by the values read_csv *)
(* makes of them.  read_csv infers a column's type from all of its cells:  *)
(* a column whose cells are all numerals is read as numbers, so that the   *)
(* cell 007 is the number 7 and, after load_votes' astype(str), the string *)
(* "7"; a column with one non-numeral cell keeps every cell as written.    *)
(***************************************************************************)
EXTENDS Integers, Sequences, FiniteSets, TLC

\* ------------------------------------------------------------------ bounds

\* The last instant datetime.now() may return; no call starts after it, so
\* it also bounds the number of save_vote calls and the rows of the store.
MaxClock == 2
\* Concurrent save_vote calls (browser sessions submitting at once).
NProcs == 2
\* The most votes one item has when its scores are computed on their own.
MaxVotes == 10

\* ------------------------------------------------------------------- data

\* uuid4 strings: never numerals, never empty.
SessionIds == {"s1", "s2"}
\* Names typed on the intro screen (stripped, non-empty).
Names == {"ann", "bob"}
\* Item ids as images.csv may give them: a plain id and a numeral with a
\* leading zero.
ItemIds == {"img_a", "007"}
\* The cells read_csv takes for numbers.
NumeralIds == {"007", "7"}
\* Every id a frame may hold.
AllIds == ItemIds \cup {"7"}
VoteValues == {"yes", "no", "maybe"}

\* int("007") = 7 and str(7) = "7": what read_csv followed by astype(str)
\* makes of a numeral cell.
NumStr(cell) == IF cell = "007" THEN "7" ELSE cell

\* The ids in the order of Python strings ("007" < "7" < "img_a"): the order
\* in which groupby lists its groups.
IdsInOrder == <<"007", "7", "img_a">>

Range(f) == {f[k] : k \in DOMAIN f}

\* ------------------------------------------------------------- votes.csv

NoFile == [kind |-> "absent", rows |-> <<>>]
\* A file read_csv cannot parse (zero bytes, ragged lines, bad encoding).
Unparseable == [kind |-> "unparseable", rows |-> <<>>]
\* A file read_csv parses, but that has other columns than the ledger's.
ForeignCsv == [kind |-> "noschema", rows |-> << [junk |-> "x"] >>]
CsvFile(rows) == [kind |-> "csv", rows |-> rows]

\* DataFrame(columns=[session_id, user_name, image_id, vote, timestamp]).
EmptyFrame == [hasCols |-> TRUE, rows |-> <<>>]

\* pd.read_csv's type inference on the image_id column, then astype(str).
InferIds(rows) ==
    IF rows # <<>> /\ \A k \in DOMAIN rows : rows[k].image_id \in NumeralIds
    THEN [k \in DOMAIN rows |-> [rows[k] EXCEPT !.image_id = NumStr(@)]]
    ELSE rows

ReadCsv(f) ==
    IF f.kind = "csv" THEN [hasCols |-> TRUE, rows |-> InferIds(f.rows)]
    ELSE [hasCols |-> FALSE, rows |-> f.rows]

\* load_votes: an absent file and a read_csv exception both give the empty
\* frame; any frame read_csv returns is returned as it is.
load_votes(f) ==
    CASE f.kind = "absent" -> EmptyFrame
      [] f.kind = "unparseable" -> EmptyFrame
      [] OTHER -> ReadCsv(f)

\* DataFrame.to_csv(VOTES_CSV, index=False): the whole file is replaced.
ToCsv(df) == CsvFile(df.rows)

\* The rows of the store, as every reader sees them.
StoreRows(f) == load_votes(f).rows

\* ------------------------------------------------------------- save_vote

Mask(rows, s, i) ==
    {k \in DOMAIN rows : rows[k].session_id = s /\ rows[k].image_id = i}

NewVote(s, n, i, v, ts) ==
    [session_id |-> s, user_name |-> n, image_id |-> i, vote |-> v,
     timestamp |-> ts]

\* Lines 173-188: update every masked row in place, or append a new row.
Upsert(df, s, n, i, v, ts) ==
    IF Mask(df.rows, s, i) # {}
    THEN [df EXCEPT !.rows =
            [k \in DOMAIN df.rows |->
               IF k \in Mask(df.rows, s, i)
               THEN [df.rows[k] EXCEPT !.vote = v, !.timestamp = ts]
               ELSE df.rows[k]]]
    ELSE [df EXCEPT !.rows = Append(df.rows, NewVote(s, n, i, v, ts))]

\* -------------------------------------------------- get_user_vote_summary

RECURSIVE CountRows(_, _, _)
\* len(user_votes[user_votes["vote"] == v]) over the rows of session s;
\* v = "*" stands for no filter on the vote (len(user_votes)).
CountRows(rows, s, v) ==
    IF rows = <<>> THEN 0
    ELSE (IF Head(rows).session_id = s /\ (v = "*" \/ Head(rows).vote = v)
          THEN 1 ELSE 0) + CountRows(Tail(rows), s, v)

\* get_user_vote_summary without the filter on session_id at line 197.
summary_of_all_sessions(f, s) ==
    LET all == load_votes(f).rows
        n(v) == Cardinality({k \in DOMAIN all : v = "*" \/ all[k].vote = v})
    IN  [total |-> n("*"), yes |-> n("yes"), no |-> n("no"), maybe |-> n("maybe")]

get_user_vote_summary(f, s) ==
    [total |-> CountRows(load_votes(f).rows, s, "*"),
     yes   |-> CountRows(load_votes(f).rows, s, "yes"),
     no    |-> CountRows(load_votes(f).rows, s, "no"),
     maybe |-> CountRows(load_votes(f).rows, s, "maybe")]

\* --------------------------------------------------- get_aggregate_stats

\* np.log1p(n) in hundred-thousandths, for n = 0..11, so that a score of
\* 100.0 * ln 12 stays below 2^31.  ln 4 = 2 ln 2, ln 6 = ln 2 + ln 3 and
\* ln 8 = 3 ln 2 hold exactly, as they do for the doubles log1p returns; for
\* totals up to 7 two scores compare as the doubles do.
Ln2 == 69315
Ln3 == 109861
Ln5 == 160944
Ln7 == 194591
Ln11 == 239790
Log1p(n) ==
    CASE n = 0 -> 0
      [] n = 1 -> Ln2
      [] n = 2 -> Ln3
      [] n = 3 -> 2 * Ln2
      [] n = 4 -> Ln5
      [] n = 5 -> Ln2 + Ln3
      [] n = 6 -> Ln7
      [] n = 7 -> 3 * Ln2
      [] n = 8 -> 2 * Ln3
      [] n = 9 -> Ln2 + Ln5
      [] n = 10 -> Ln11
      [] n = 11 -> 2 * Ln2 + Ln3

\* Line 223 with the digits after the first decimal cut off, not rounded.
YesPercentage_truncated(yes, total) == (1000 * yes) \div total

\* (yes / total * 100).round(1), in tenths of a percent: numpy rounds the
\* half to the even digit.
YesPercentage(yes, total) ==
    LET q == (1000 * yes) \div total
        r == (1000 * yes) % total
    IN  IF 2 * r > total \/ (2 * r = total /\ q % 2 = 1) THEN q + 1 ELSE q

\* The (x == v).sum() of one group.
GroupCount(rows, id, v) ==
    Cardinality({k \in DOMAIN rows :
                   rows[k].image_id = id /\ (v = "*" \/ rows[k].vote = v)})

\* One row of groupby("image_id").agg(...), with lines 223-226.
StatsRow(rows, id) ==
    LET total == GroupCount(rows, id, "*")
        yes   == GroupCount(rows, id, "yes")
    IN  [image_id |-> id,
         total_votes |-> total,
         yes_votes |-> yes,
         no_votes |-> GroupCount(rows, id, "no"),
         maybe_votes |-> GroupCount(rows, id, "maybe"),
         yes_percentage |-> YesPercentage(yes, total),
         weighted_score |-> YesPercentage(yes, total) * Log1p(total)]

\* The groups, in the order of their keys.
GroupStats(rows) ==
    LET keys == SelectSeq(IdsInOrder,
                          LAMBDA id : \E k \in DOMAIN rows : rows[k].image_id = id)
    IN  [k \in DOMAIN keys |-> StatsRow(rows, keys[k])]

\* sort_values(["weighted_score", "yes_percentage"], ascending=[False, False]):
\* a goes before b.
Before(a, b) ==
    \/ a.weighted_score > b.weighted_score
    \/ /\ a.weighted_score = b.weighted_score
       /\ a.yes_percentage > b.yes_percentage

RECURSIVE InsertRow(_, _)
\* x placed behind every row it does not go before (the sort is stable).
InsertRow(sorted, x) ==
    IF sorted = <<>> THEN <<x>>
    ELSE IF Before(x, Head(sorted)) THEN <<x>> \o sorted
    ELSE <<Head(sorted)>> \o InsertRow(Tail(sorted), x)

RECURSIVE SortValues(_)
SortValues(stats) ==
    IF stats = <<>> THEN <<>>
    ELSE InsertRow(SortValues(SubSeq(stats, 1, Len(stats) - 1)),
                   stats[Len(stats)])

\* get_aggregate_stats with the result of sort_values at line 227 dropped.
aggregate_stats_unsorted(f) ==
    IF Len(load_votes(f).rows) = 0
    THEN [none |-> TRUE, rows |-> <<>>]
    ELSE [none |-> FALSE, rows |-> GroupStats(load_votes(f).rows)]

\* get_aggregate_stats without the test of lines 212-213: an empty store
\* gives a table without rows.
aggregate_stats_unguarded(f) ==
    [none |-> FALSE, rows |-> SortValues(GroupStats(load_votes(f).rows))]

\* None for a store without rows, the sorted table otherwise.
get_aggregate_stats(f) ==
    IF Len(load_votes(f).rows) = 0
    THEN [none |-> TRUE, rows |-> <<>>]
    ELSE [none |-> FALSE, rows |-> SortValues(GroupStats(load_votes(f).rows))]

\* ------------------------------------------------------- show_end_screen

\* Rows the end screen lists (agg_stats.head(10)).
TopN == 10

RECURSIVE Merge(_, _)
\* agg_stats.merge(images_df, left_on="image_id", right_on="id", how="inner"):
\* the left rows in their order, each once per catalog entry of its id.
Merge(stats, catalog) ==
    IF stats = <<>> THEN <<>>
    ELSE LET hits == SelectSeq(catalog, LAMBDA id : id = Head(stats).image_id)
         IN  [k \in DOMAIN hits |-> Head(stats)] \o Merge(Tail(stats), catalog)

\* The merge of line 474 with how="left": every row of the table is kept.
Merge_left(stats, catalog) == stats

\* The join of lines 474-479.
JoinCatalog(stats, catalog) == Merge(stats, catalog)

RECURSIVE SumVotes(_)
SumVotes(stats) ==
    IF stats = <<>> THEN 0 ELSE Head(stats).total_votes + SumVotes(Tail(stats))

Head10(stats) == SubSeq(stats, 1, IF Len(stats) < TopN THEN Len(stats) ELSE TopN)

\* Lines 469-512: the team results of the end screen for the catalog given.
TeamResults(f, catalog) ==
    LET agg    == get_aggregate_stats(f)
        merged == JoinCatalog(agg.rows, catalog)
        valid  == {merged[k].image_id : k \in DOMAIN merged}
        all    == load_votes(f).rows
    IN  IF ~agg.none /\ Len(agg.rows) > 0
        THEN [shown |-> TRUE,
              table |-> merged,
              top |-> Head10(merged),
              total_votes |-> SumVotes(merged),
              unique_voters |->
                  Cardinality({all[k].session_id :
                                 k \in {j \in DOMAIN all : all[j].image_id \in valid}})]
        ELSE [shown |-> FALSE, table |-> <<>>, top |-> <<>>,
              total_votes |-> 0, unique_voters |-> 0]

\* ----------------------------------------------------------- load_images

\* Catalogs load_images may return: ids that are not all numerals stay as
\* written.
Catalogs == { <<"img_a">>, <<"007", "img_a">> }

\* images.csv with the columns id and url and the ids given, one per row.
ImagesCsv(ids) == [kind |-> "csv", cols |-> TRUE, ids |-> ids]
NoImages == [kind |-> "absent", cols |-> FALSE, ids |-> <<>>]
\* A file read_csv raises on.
BadImages == [kind |-> "unparseable", cols |-> FALSE, ids |-> <<>>]
\* A file without the column id or url.
ImagesWithoutCols == [kind |-> "csv", cols |-> FALSE, ids |-> <<"img_a">>]
\* The files a run may find as images.csv.
ImagesFiles ==
    {ImagesCsv(c) : c \in Catalogs}
        \cup {NoImages, BadImages, ImagesWithoutCols, ImagesCsv(<<>>)}

\* None, in place of the catalog.
NoCatalog == <<>>

\* load_images: (df, None), or (None, error) with the error of the first
\* test that fails.
load_images(f) ==
    CASE f.kind = "absent" ->
            [df |-> NoCatalog, error |-> "images.csv not found"]
      [] f.kind = "unparseable" ->
            [df |-> NoCatalog, error |-> "Error loading images.csv"]
      [] ~f.cols ->
            [df |-> NoCatalog, error |-> "must have 'id' and 'url' columns"]
      [] f.ids = <<>> ->
            [df |-> NoCatalog, error |-> "images.csv is empty"]
      [] OTHER -> [df |-> f.ids, error |-> ""]

\* ------------------------------------------------------------------ state

VARIABLES
    images,    \* images.csv
    file,      \* votes.csv
    now,       \* the clock datetime.now() reads
    ss,        \* st.session_state of the browser session
    issued,    \* the session ids uuid4 has returned
    procs,     \* the save_vote calls in progress in concurrent script runs
    recorded,  \* history: the latest save_vote call of each pair since the
               \* store was last cleared
    last,      \* history: the last operation, its arguments and how it ended
    ret        \* what the last read operation returned to its caller

vars == <<images, file, now, ss, issued, procs, recorded, last, ret>>

NoCall == [op |-> "none", s |-> "", i |-> "", v |-> "", ts |-> 0,
           outcome |-> "ok", catalog |-> <<>>, was |-> {},
           pre |-> [kind |-> "absent", n |-> 0]]
NoRet == [summary |-> [total |-> 0, yes |-> 0, no |-> 0, maybe |-> 0],
          stats |-> [none |-> TRUE, rows |-> <<>>],
          team |-> [shown |-> FALSE, table |-> <<>>, top |-> <<>>,
                    total_votes |-> 0, unique_voters |-> 0]]

\* What an operation found: the kind of file and the rows a reader saw.
Found(f) == [kind |-> f.kind, n |-> Len(load_votes(f).rows)]

Procs == 1..NProcs
Idle == [pc |-> "idle", s |-> "", n |-> "", i |-> "", v |-> "", ts |-> 0,
         df |-> EmptyFrame]

\* init_session_state: a fresh session id, no name, nothing voted. "" stands
\* for None.  `catalog` is what load_images returns to every run of the
\* script: images.csv is not edited while the application runs.
NewSession(id, c) ==
    [session_id |-> id, user_name |-> "", current_index |-> 0,
     finished |-> FALSE, started |-> FALSE, catalog |-> c]

Init ==
    /\ images \in {ImagesCsv(c) : c \in Catalogs}
    /\ file \in {NoFile, CsvFile(<<>>)}
    /\ now = 0
    /\ ss = NewSession("s1", load_images(images).df)
    /\ issued = {"s1"}
    /\ procs = [p \in Procs |-> Idle]
    /\ recorded = {}
    /\ last = NoCall
    /\ ret = NoRet

\* The calls of `recorded` for the pair (s, i).
CallsOf(s, i) == {c \in recorded : c.s = s /\ c.i = i}

Saved(s, i, v, ts) ==
    [NoCall EXCEPT !.op = "save", !.s = s, !.i = i, !.v = v, !.ts = ts,
                   !.was = CallsOf(s, i), !.pre = Found(file)]

\* save_vote(s, n, i, v), run to its end with no other writer in between;
\* datetime.now() at line 169 reads a later instant on every call.
save_vote(s, n, i, v) ==
    /\ now < MaxClock
    /\ load_votes(file).hasCols
    /\ file' = ToCsv(Upsert(load_votes(file), s, n, i, v, now + 1))
    /\ now' = now + 1
    /\ recorded' = (recorded \ CallsOf(s, i))
                      \cup {[s |-> s, i |-> i, v |-> v, ts |-> now + 1]}
    /\ last' = Saved(s, i, v, now + 1)
    /\ ret' = NoRet

RecordVote ==
    /\ \E s \in SessionIds, n \in Names, i \in ItemIds, v \in VoteValues :
          save_vote(s, n, i, v)
    /\ UNCHANGED <<images, ss, issued, procs>>

\* The test of line 570 inverted: nothing is removed.
RemoveFile_inverted(f) == IF f.kind = "absent" THEN NoFile ELSE f

\* Lines 569-579: os.remove when the file exists, a notice when not.
RemoveFile(f) == IF f.kind # "absent" THEN NoFile ELSE f

ClearAllVotes ==
    /\ load_images(images).error = ""
    /\ file' = RemoveFile(file)
    /\ recorded' = {}
    /\ last' = [NoCall EXCEPT !.op = "clear", !.pre = Found(file)]
    /\ ret' = NoRet
    /\ UNCHANGED <<images, now, ss, issued, procs>>

\* votes.csv after load_votes: the file is tested for existence and opened
\* for reading, nothing else.
AfterRead_creating(f) == IF f.kind = "absent" THEN CsvFile(<<>>) ELSE f

AfterRead(f) == f

\* What show_end_screen computes for session s and catalog c: the voter's
\* tally, then the team results.
EndScreenOf(s, c) ==
    [summary |-> get_user_vote_summary(file, s),
     stats |-> get_aggregate_stats(file),
     team |-> TeamResults(file, c)]

\* show_end_screen for any session and any catalog a run may have loaded.
ShowEndScreen ==
    \E s \in SessionIds, c \in Catalogs :
        /\ load_votes(file).hasCols
        /\ ret' = EndScreenOf(s, c)
        /\ file' = AfterRead(file)
        /\ last' = [NoCall EXCEPT !.op = "end_screen", !.s = s, !.catalog = c,
                                  !.pre = Found(file)]
        /\ UNCHANGED <<images, now, ss, issued, procs, recorded>>

Next == RecordVote \/ ClearAllVotes \/ ShowEndScreen

\* The ledger's operations, one at a time, with any arguments.
Spec == Init /\ [][Next]_vars

\* ---------------------------------------------- concurrent save_vote calls

\* Streamlit runs each browser session's script in a thread of its own, so
\* the three steps of save_vote interleave between sessions.  Two calls may
\* read the same instant.

\* Lines 169-170: the timestamp is taken and the store loaded.
SvLoad(p) ==
    \E s \in SessionIds, n \in Names, i \in ItemIds, v \in VoteValues,
       ts \in {now, now + 1} :
        /\ procs[p].pc = "idle"
        /\ ts <= MaxClock
        /\ load_votes(file).hasCols
        /\ procs' = [procs EXCEPT ![p] =
                        [pc |-> "loaded", s |-> s, n |-> n, i |-> i, v |-> v,
                         ts |-> ts, df |-> load_votes(file)]]
        /\ now' = ts
        /\ last' = [NoCall EXCEPT !.op = "load", !.s = s, !.i = i, !.v = v,
                                  !.ts = ts, !.pre = Found(file)]
        /\ UNCHANGED <<images, file, ss, issued, recorded, ret>>

\* Lines 173-188, on the frame the call holds in memory.
SvModify(p) ==
    /\ procs[p].pc = "loaded"
    /\ procs' = [procs EXCEPT
                   ![p].pc = "modified",
                   ![p].df = Upsert(procs[p].df, procs[p].s, procs[p].n,
                                    procs[p].i, procs[p].v, procs[p].ts)]
    /\ last' = [NoCall EXCEPT !.op = "modify", !.s = procs[p].s,
                              !.i = procs[p].i, !.v = procs[p].v,
                              !.ts = procs[p].ts, !.pre = Found(file)]
    /\ UNCHANGED <<images, file, now, ss, issued, recorded, ret>>

\* Line 191: the frame replaces the file.
SvWrite(p) ==
    /\ procs[p].pc = "modified"
    /\ file' = ToCsv(procs[p].df)
    /\ procs' = [procs EXCEPT ![p].pc = "done", ![p].df = EmptyFrame]
    /\ recorded' = (recorded \ CallsOf(procs[p].s, procs[p].i))
                      \cup {[s |-> procs[p].s, i |-> procs[p].i,
                             v |-> procs[p].v, ts |-> procs[p].ts]}
    /\ last' = Saved(procs[p].s, procs[p].i, procs[p].v, procs[p].ts)
    /\ UNCHANGED <<images, now, ss, issued, ret>>

ConcNext == \E p \in Procs : SvLoad(p) \/ SvModify(p) \/ SvWrite(p)

\* NProcs save_vote calls, their steps interleaved in any order.
ConcSpec == Init /\ [][ConcNext]_vars

RaceNext == ConcNext \/ ClearAllVotes

\* The concurrent save_vote calls, with the admin clearing the store at any
\* moment between their steps.
RaceSpec == Init /\ [][RaceNext]_vars

\* ------------------------------------------- the session flow, with faults

\* main() without the return of line 545: the router runs whatever
\* load_images returned.
Screen_without_return ==
    IF ~ss.started \/ ss.user_name = "" THEN "intro"
    ELSE IF ss.finished THEN "end" ELSE "voting"

\* The screen main() routes to (lines 548-553), or "error" when load_images
\* returned an error and main() returned at line 545.
Screen ==
    IF load_images(images).error # "" THEN "error"
    ELSE IF ~ss.started \/ ss.user_name = "" THEN "intro"
    ELSE IF ss.finished THEN "end" ELSE "voting"

Ui(op) == [NoCall EXCEPT !.op = op, !.s = ss.session_id, !.pre = Found(file)]

\* Lines 273-277: 'Start Swiping' with a name typed in.
StartSwiping ==
    \E n \in Names :
        /\ Screen = "intro"
        /\ ss' = [ss EXCEPT !.user_name = n, !.started = TRUE]
        /\ last' = Ui("start")
        /\ ret' = NoRet
        /\ UNCHANGED <<images, file, now, issued, procs, recorded>>

\* Lines 354 and 373 without the increment.
NextIndex_stuck(idx) == idx

\* Lines 354 and 373: current_index += 1.
NextIndex(idx) == idx + 1

\* Line 318 with the test one item early.
PastLast_early(idx, total) == idx + 1 >= total

\* Line 318: current_idx >= total_images.
PastLast(idx, total) == idx >= total

\* A vote button is on the page (lines 318-367).
CanVote ==
    /\ Screen = "voting"
    /\ ~PastLast(ss.current_index, Len(ss.catalog))
    /\ now < MaxClock

\* The id of the item on the page (line 351).
CurrentId == ss.catalog[ss.current_index + 1]

\* The frame save_vote would write for the vote v on the item on the page.
VoteFrame(v) ==
    Upsert(load_votes(file), ss.session_id, ss.user_name, CurrentId, v, now + 1)

\* handle_vote (lines 347-355): save_vote returns and the index advances.
HandleVote ==
    \E v \in VoteValues :
        /\ CanVote
        /\ load_votes(file).hasCols
        /\ file' = ToCsv(VoteFrame(v))
        /\ now' = now + 1
        /\ ss' = [ss EXCEPT !.current_index = NextIndex(@)]
        /\ recorded' = (recorded \ CallsOf(ss.session_id, CurrentId))
                          \cup {[s |-> ss.session_id, i |-> CurrentId,
                                 v |-> v, ts |-> now + 1]}
        /\ last' = Saved(ss.session_id, CurrentId, v, now + 1)
        /\ ret' = NoRet
        /\ UNCHANGED <<images, issued, procs>>

\* handle_vote on a frame without the ledger's columns: line 173 raises
\* KeyError, which nothing catches; line 354 is not reached.
HandleVoteKeyError ==
    \E v \in VoteValues :
        /\ CanVote
        /\ ~load_votes(file).hasCols
        /\ now' = now + 1
        /\ last' = [Saved(ss.session_id, CurrentId, v, now + 1)
                      EXCEPT !.outcome = "KeyError"]
        /\ ret' = NoRet
        /\ UNCHANGED <<images, file, ss, issued, procs, recorded>>

\* What a to_csv that raises may leave of votes.csv: the old file (the open
\* was refused), an empty file (opened for writing, nothing written), or the
\* header and the first rows (the device filled up while writing).
FailedWrites(old, df) ==
    {old, Unparseable}
        \cup {CsvFile(SubSeq(df.rows, 1, k)) : k \in 0..(Len(df.rows) - 1)}

\* handle_vote when to_csv (line 191) raises OSError: nothing catches it;
\* line 354 is not reached.
HandleVoteWriteFails ==
    \E v \in VoteValues :
        /\ CanVote
        /\ load_votes(file).hasCols
        /\ file' \in FailedWrites(file, VoteFrame(v))
        /\ now' = now + 1
        /\ last' = [Saved(ss.session_id, CurrentId, v, now + 1)
                      EXCEPT !.outcome = "OSError"]
        /\ ret' = NoRet
        /\ UNCHANGED <<images, ss, issued, procs, recorded>>

\* Lines 370-374: 'Skip this item', offered when the content did not load.
SkipItem ==
    /\ Screen = "voting"
    /\ ~PastLast(ss.current_index, Len(ss.catalog))
    /\ ss' = [ss EXCEPT !.current_index = NextIndex(@)]
    /\ last' = Ui("skip")
    /\ ret' = NoRet
    /\ UNCHANGED <<images, file, now, issued, procs, recorded>>

\* Lines 318-321: past the last item the session is finished.
VotingDone ==
    /\ Screen = "voting"
    /\ PastLast(ss.current_index, Len(ss.catalog))
    /\ ss' = [ss EXCEPT !.finished = TRUE]
    /\ last' = Ui("done")
    /\ ret' = NoRet
    /\ UNCHANGED <<images, file, now, issued, procs, recorded>>

\* show_end_screen renders the tally and the team results.
ViewEndScreen ==
    /\ Screen = "end"
    /\ load_votes(file).hasCols
    /\ ret' = EndScreenOf(ss.session_id, ss.catalog)
    /\ file' = AfterRead(file)
    /\ last' = [Ui("end_screen") EXCEPT !.catalog = ss.catalog]
    /\ UNCHANGED <<images, now, ss, issued, procs, recorded>>

\* show_end_screen on a frame without the ledger's columns: line 197 raises
\* KeyError.
ViewEndScreenKeyError ==
    /\ Screen = "end"
    /\ ~load_votes(file).hasCols
    /\ ret' = NoRet
    /\ last' = [Ui("end_screen") EXCEPT !.catalog = ss.catalog,
                                        !.outcome = "KeyError"]
    /\ UNCHANGED <<images, file, now, ss, issued, procs, recorded>>

\* reset_session keeping the session id it has.
FreshIds_kept(used) == SessionIds

\* str(uuid.uuid4()) at line 234: an id no session had before.
FreshIds(used) == SessionIds \ used

\* reset_session (lines 232-238), from 'Restart with another name'.
Restart ==
    \E id \in FreshIds(issued) :
        /\ Screen = "end"
        /\ ss' = NewSession(id, ss.catalog)
        /\ issued' = issued \cup {id}
        /\ last' = Ui("restart")
        /\ ret' = NoRet
        /\ UNCHANGED <<images, file, now, procs, recorded>>

\* Lines 563-567: the admin's 'View Results'.
ViewResults ==
    /\ Screen # "error"
    /\ ss' = [ss EXCEPT !.user_name = "Admin", !.started = TRUE,
                        !.finished = TRUE]
    /\ last' = Ui("view_results")
    /\ ret' = NoRet
    /\ UNCHANGED <<images, file, now, issued, procs, recorded>>

\* votes.csv damaged from outside the application.
CorruptStore ==
    /\ file' \in {Unparseable, ForeignCsv}
    /\ file' # file
    /\ last' = Ui("corrupt")
    /\ ret' = NoRet
    /\ UNCHANGED <<images, now, ss, issued, procs, recorded>>

FaultNext ==
    \/ StartSwiping \/ HandleVote \/ HandleVoteKeyError \/ HandleVoteWriteFails
    \/ SkipItem \/ VotingDone \/ ViewEndScreen \/ ViewEndScreenKeyError
    \/ Restart \/ ViewResults \/ ClearAllVotes \/ CorruptStore

\* One browser session after another, with a store that may be damaged and
\* writes that may fail.
FaultSpec == Init /\ [][FaultNext]_vars

\* ------------------------------------------- the session flow, from main()

\* Lines 530-545: load_images returned an error; it is shown with the setup
\* instructions and main() returns.
MainStops ==
    /\ Screen = "error"
    /\ last' = [Ui("load_error") EXCEPT !.outcome = load_images(images).error]
    /\ ret' = NoRet
    /\ UNCHANGED <<images, file, now, ss, issued, procs, recorded>>

\* The first run of the script, with whatever images.csv is there.
FlowInit ==
    /\ images \in ImagesFiles
    /\ file \in {NoFile, CsvFile(<<>>)}
    /\ now = 0
    /\ ss = NewSession("s1", load_images(images).df)
    /\ issued = {"s1"}
    /\ procs = [p \in Procs |-> Idle]
    /\ recorded = {}
    /\ last = NoCall
    /\ ret = NoRet

FlowNext ==
    \/ MainStops \/ StartSwiping \/ HandleVote \/ SkipItem \/ VotingDone
    \/ ViewEndScreen \/ Restart \/ ViewResults \/ ClearAllVotes

\* One browser session after another; every read and write of votes.csv
\* succeeds.
FlowSpec == FlowInit /\ [][FlowNext]_vars

\* The same with a voter who keeps deciding (a vote or a skip) while an item
\* is shown, and the rerun of line 320 taking place.  No save_vote call
\* starts after MaxClock, so past it the decisions are skips.
FlowLive ==
    /\ FlowSpec
    /\ WF_vars(HandleVote \/ SkipItem)
    /\ WF_vars(VotingDone)

\* ------------------------------------- the scores of one item, on their own

\* The sessions that voted on the item.
Voters == <<"v01", "v02", "v03", "v04", "v05", "v06", "v07", "v08", "v09",
            "v10", "v11">>

\* A store of `total` votes on one item: `yes` of them yes, `maybe` of them
\* maybe, the others no, each of a session of its own.
ScoreStore(yes, maybe, total) ==
    CsvFile([k \in 1..total |->
               NewVote(Voters[k], "ann", "img_a",
                       IF k <= yes THEN "yes"
                       ELSE IF k <= yes + maybe THEN "maybe" ELSE "no", 0)])

ScoreInit ==
    /\ images = ImagesCsv(<<"img_a">>)
    /\ \E total \in 1..MaxVotes :
          \E yes \in 0..total :
             \E maybe \in 0..(total - yes) : file = ScoreStore(yes, maybe, total)
    /\ now = 0
    /\ ss = NewSession("s1", load_images(images).df)
    /\ issued = {"s1"}
    /\ procs = [p \in Procs |-> Idle]
    /\ recorded = {}
    /\ last = NoCall
    /\ ret = NoRet

\* get_aggregate_stats, called on its own.
ComputeStats ==
    /\ ret' = [NoRet EXCEPT !.stats = get_aggregate_stats(file)]
    /\ file' = AfterRead(file)
    /\ last' = [NoCall EXCEPT !.op = "stats", !.pre = Found(file)]
    /\ UNCHANGED <<images, now, ss, issued, procs, recorded>>

ScoreNext == ComputeStats

\* The aggregate of every tally of up to MaxVotes votes on one item.
ScoreSpec == ScoreInit /\ [][ScoreNext]_vars

\* ----------------------------------------------------------------- claims

\* The rows of the store for the pair (s, i).
PairRows(s, i) == Mask(StoreRows(file), s, i)

\* C1: after any sequence of save_vote and clear-all-votes operations run
\* one at a time from an empty or absent store, the store holds at most one
\* row for every (session_id, image_id) pair.
C1_OneRowPerPair ==
    \A s \in SessionIds, i \in AllIds : Cardinality(PairRows(s, i)) <= 1

\* C2: a second save_vote for a pair, with another value than the first,
\* leaves exactly one row for the pair, holding the second value and a
\* timestamp not before the one the first call wrote.
C2_SecondVoteOverwrites ==
    \A w \in last.was :
        (last.op = "save" /\ w.v # last.v) =>
            /\ Cardinality(PairRows(last.s, last.i)) = 1
            /\ \A k \in PairRows(last.s, last.i) :
                  /\ StoreRows(file)[k].vote = last.v
                  /\ StoreRows(file)[k].timestamp >= w.ts

\* The store rows of session s whose vote is v ("*": any vote).
SessionRows(s, v) ==
    {k \in DOMAIN StoreRows(file) :
        /\ StoreRows(file)[k].session_id = s
        /\ v = "*" \/ StoreRows(file)[k].vote = v}

\* C5: get_user_vote_summary returns, for the session asked, total = the
\* number of its rows and yes / no / maybe = the number of those rows with
\* that vote, so total = yes + no + maybe; a session without rows (the store
\* may be empty or absent) gets four zeros, and no error is raised.
C5_TallyCounts ==
    last.op = "end_screen" =>
        /\ last.outcome = "ok"
        /\ ret.summary.total = Cardinality(SessionRows(last.s, "*"))
        /\ ret.summary.yes = Cardinality(SessionRows(last.s, "yes"))
        /\ ret.summary.no = Cardinality(SessionRows(last.s, "no"))
        /\ ret.summary.maybe = Cardinality(SessionRows(last.s, "maybe"))
        /\ ret.summary.total
             = ret.summary.yes + ret.summary.no + ret.summary.maybe
        /\ SessionRows(last.s, "*") = {} =>
             ret.summary = [total |-> 0, yes |-> 0, no |-> 0, maybe |-> 0]

\* A tally of one vote, while the store holds a row of another session too.
C5_Witness ==
    /\ last.op = "end_screen"
    /\ ret.summary.total = 1
    /\ ret.summary.maybe = 1
    /\ Len(StoreRows(file)) = 2

\* The rows of a table go down by weighted_score, and by yes_percentage
\* where the weighted_score is the same.
Ranked(table) ==
    \A k \in 1..(Len(table) - 1) :
        /\ table[k].weighted_score >= table[k + 1].weighted_score
        /\ table[k].weighted_score = table[k + 1].weighted_score
             => table[k].yes_percentage >= table[k + 1].yes_percentage

ItemRows(id) == {k \in DOMAIN StoreRows(file) : StoreRows(file)[k].image_id = id}

RECURSIVE CatalogVotes(_)
\* The store rows the entries of a catalog stand for, entry by entry.
CatalogVotes(catalog) ==
    IF catalog = <<>> THEN 0
    ELSE Cardinality(ItemRows(Head(catalog))) + CatalogVotes(Tail(catalog))

\* C7: the end screen's report has a row for an image_id only if the id is
\* in the catalog; votes for an id the catalog lacks add no row and nothing
\* to 'Total Votes Cast' or 'Unique Voters', and raise no error.
C7_InnerJoin ==
    last.op = "end_screen" =>
        /\ last.outcome = "ok"
        /\ \A k \in DOMAIN ret.team.table :
              /\ ret.team.table[k].image_id \in Range(last.catalog)
              /\ ret.team.table[k].total_votes
                   = Cardinality(ItemRows(ret.team.table[k].image_id))
        /\ ret.team.total_votes = CatalogVotes(last.catalog)
        /\ ret.team.unique_voters =
             Cardinality({StoreRows(file)[k].session_id :
                            k \in {j \in DOMAIN StoreRows(file) :
                                     StoreRows(file)[j].image_id
                                        \in Range(last.catalog)}})

\* A report shown while the store holds a vote for an id outside the catalog
\* and a vote for one inside it.
C7_Witness ==
    /\ last.op = "end_screen"
    /\ ret.team.shown
    /\ Len(ret.team.table) = 1
    /\ \E k \in DOMAIN StoreRows(file) :
          StoreRows(file)[k].image_id \notin Range(last.catalog)

\* C8: clear-all-votes succeeds on a store with votes, on an empty one and on
\* an absent one, and leaves load_votes without rows; a second clear changes
\* nothing.
C8_ClearIdempotent ==
    last.op = "clear" =>
        /\ last.outcome = "ok"
        /\ StoreRows(file) = <<>>
        /\ RemoveFile(file) = file

\* A clear of a store that held votes.
C8_Witness ==
    /\ last.op = "clear"
    /\ last.pre.n > 0

\* Every concurrent call has written its frame back.
AllDone == \A p \in Procs : procs[p].pc = "done"

\* The store rows of call p's pair, under the id as the call gave it or as
\* read_csv gives it back.
RowsOfCall(p) ==
    {k \in DOMAIN StoreRows(file) :
        /\ StoreRows(file)[k].session_id = procs[p].s
        /\ StoreRows(file)[k].image_id \in {procs[p].i, NumStr(procs[p].i)}}

\* C3: when the concurrent save_vote calls are for pairwise distinct pairs,
\* every one of their votes is in the store once all calls have completed,
\* however their load, modify and write-back steps interleave.
C3_DistinctPairsAllPersist ==
    (/\ AllDone
     /\ \A p, q \in Procs :
           p # q => <<procs[p].s, procs[p].i>> # <<procs[q].s, procs[q].i>>)
    => \A p \in Procs :
           \E k \in RowsOfCall(p) : StoreRows(file)[k].vote = procs[p].v

\* C4: when the concurrent save_vote calls are all for the same pair, the
\* store holds exactly one row for the pair once all calls have completed,
\* with the vote of the call whose write-back came last.
C4_SamePairLastWriteWins ==
    (/\ AllDone
     /\ \A p, q \in Procs : procs[p].s = procs[q].s /\ procs[p].i = procs[q].i)
    => \A p \in Procs :
           /\ Cardinality(RowsOfCall(p)) = 1
           /\ \A k \in RowsOfCall(p) : StoreRows(file)[k].vote = last.v

\* C4 for ids that are not numerals (not a claim's formula: it records that
\* C4 fails through the reading of numeral ids only).
C4_ForPlainIds ==
    (/\ AllDone
     /\ \A p, q \in Procs : procs[p].s = procs[q].s /\ procs[p].i = procs[q].i
     /\ \A p \in Procs : procs[p].i \notin NumeralIds)
    => \A p \in Procs :
           /\ Cardinality(RowsOfCall(p)) = 1
           /\ \A k \in RowsOfCall(p) : StoreRows(file)[k].vote = last.v

\* C1 and C2 for ids that are not numerals (not a claim's formula).
C1_ForPlainIds ==
    \A s \in SessionIds, i \in AllIds \ NumeralIds :
        Cardinality(PairRows(s, i)) <= 1

\* The kinds of file C9 is about: no file, or one whose data is damaged.
Damaged == {"absent", "unparseable", "noschema"}

\* C9: on an absent or corrupt store load_votes returns no rows and raises
\* nothing, and save_vote, get_user_vote_summary and get_aggregate_stats go
\* on as on an empty store, with no read error reaching their caller.
C9_DamagedStoreReadsEmpty ==
    /\ file.kind \in Damaged => load_votes(file) = EmptyFrame
    /\ last.pre.kind \in Damaged =>
          /\ last.outcome # "KeyError"
          /\ (last.op = "save" /\ last.outcome = "ok") =>
                Len(StoreRows(file)) = 1
          /\ last.op = "end_screen" =>
                /\ ret.summary = NoRet.summary
                /\ ret.stats.none

\* C9 for the files read_csv raises on (not a claim's formula).
C9_ForUnparseable ==
    /\ file.kind \in {"absent", "unparseable"} => load_votes(file) = EmptyFrame
    /\ last.pre.kind \in {"absent", "unparseable"} =>
          /\ last.outcome # "KeyError"
          /\ (last.op = "save" /\ last.outcome = "ok") =>
                Len(StoreRows(file)) = 1
          /\ last.op = "end_screen" =>
                /\ ret.summary = NoRet.summary
                /\ ret.stats.none

\* C10: when the write-back of save_vote fails, the caller gets the failure,
\* the store is as it was before the call (a reader finds the rows it found
\* before), and current_index has not moved.
C10_FailedWriteChangesNothing ==
    [][last'.outcome = "OSError" =>
          /\ load_votes(file') = load_votes(file)
          /\ ss'.current_index = ss.current_index]_vars

\* The part of C10 that holds: a failed save_vote (KeyError or OSError)
\* never advances current_index (not a claim's formula).
C10_FailedVoteKeepsIndex ==
    [][last'.outcome # "ok" => ss'.current_index = ss.current_index]_vars

\* The (session_id, image_id) pairs of the rows a reader finds in f.
PairsIn(f) ==
    {<<StoreRows(f)[k].session_id, StoreRows(f)[k].image_id>> :
        k \in DOMAIN StoreRows(f)}

\* C11: a pair that has a row in the store has one after every step that is
\* not the admin's clear-all-votes, and the clear leaves no row at all.
C11_RowsStayUntilClear ==
    [][IF last'.op = "clear"
       THEN StoreRows(file') = <<>>
       ELSE PairsIn(file) \subseteq PairsIn(file')]_vars

Abs(x) == IF x < 0 THEN -x ELSE x

\* ln 1, ln 2, ..., ln 12 in hundred-thousandths, each rounded on its own.
LnTable == <<0, 69315, 109861, 138629, 160944, 179176, 194591, 207944,
             219722, 230259, 239790, 248491>>

\* A row's yes_percentage is 100 * yes_votes / total_votes to one decimal
\* place (in tenths: within half a tenth of the quotient), and its
\* weighted_score is within 0.01 of yes_percentage * ln(1 + total_votes)
\* (in millionths).
ScoreOf(r) ==
    /\ r.total_votes > 0
    /\ 2 * Abs(r.yes_percentage * r.total_votes - 1000 * r.yes_votes)
          <= r.total_votes
    /\ Abs(r.weighted_score - r.yes_percentage * LnTable[r.total_votes + 1])
          <= 10000

\* C12, amended: every aggregate row has yes_percentage = 100 * yes_votes /
\* total_votes rounded to one decimal place and weighted_score =
\* yes_percentage * ln(1 + total_votes); an item with 10 votes, 8 of them
\* yes, has yes_percentage 80.0 and weighted_score within 0.01 of 191.83.
C12_ScoreFormula ==
    last.op = "stats" =>
        \A k \in DOMAIN ret.stats.rows :
            /\ ScoreOf(ret.stats.rows[k])
            /\ (ret.stats.rows[k].total_votes = 10
                  /\ ret.stats.rows[k].yes_votes = 8) =>
                  /\ ret.stats.rows[k].yes_percentage = 800
                  /\ Abs(ret.stats.rows[k].weighted_score - 191830000) <= 10000

\* The scores of an item with 10 votes, 8 of them yes, have been computed.
C12_Witness ==
    /\ last.op = "stats"
    /\ \E k \in DOMAIN ret.stats.rows :
          /\ ret.stats.rows[k].total_votes = 10
          /\ ret.stats.rows[k].yes_votes = 8

\* C12 as stated: ... an item with 10 votes, 8 of them yes, has
\* yes_percentage 80.0 and weighted_score within 0.01 of 191.97.
C12_AsStated ==
    last.op = "stats" =>
        \A k \in DOMAIN ret.stats.rows :
            /\ ScoreOf(ret.stats.rows[k])
            /\ (ret.stats.rows[k].total_votes = 10
                  /\ ret.stats.rows[k].yes_votes = 8) =>
                  /\ ret.stats.rows[k].yes_percentage = 800
                  /\ Abs(ret.stats.rows[k].weighted_score - 191970000) <= 10000

\* C13: every row of the aggregate report has total_votes > 0, the number of
\* store rows with its image_id; an id without votes (a catalog item nobody
\* voted on) has no row in the report or in the table shown; on a store
\* without rows get_aggregate_stats returns None and nothing is shown.
C13_OnlyVotedItems ==
    last.op = "end_screen" =>
        /\ \A k \in DOMAIN ret.stats.rows :
              /\ ret.stats.rows[k].total_votes > 0
              /\ ret.stats.rows[k].total_votes
                    = Cardinality(ItemRows(ret.stats.rows[k].image_id))
        /\ \A id \in AllIds :
              ItemRows(id) = {} =>
                  /\ \A k \in DOMAIN ret.stats.rows :
                        ret.stats.rows[k].image_id # id
                  /\ \A k \in DOMAIN ret.team.table :
                        ret.team.table[k].image_id # id
        /\ ret.stats.none <=> StoreRows(file) = <<>>
        /\ ret.stats.none => ret.stats.rows = <<>> /\ ~ret.team.shown
        /\ ~ret.stats.none => ret.stats.rows # <<>>

\* A report on a catalog of two items, one of which has no vote; and a call
\* on a store without rows.
C13_Witness ==
    /\ last.op = "end_screen"
    /\ Len(last.catalog) = 2
    /\ Len(ret.team.table) = 1
    /\ ret.team.table[1].total_votes = 2

C13_WitnessEmpty ==
    /\ last.op = "end_screen"
    /\ last.pre.kind = "csv"
    /\ ret.stats.none

\* C14: when load_images returns an error it returns no catalog, and the
\* only thing a run of main() does is show the error: no screen is routed
\* to, no vote is recorded, and the store and the session state stay as
\* they are.
C14_NoCatalogNoOperation ==
    [][load_images(images).error # "" =>
          /\ load_images(images).df = NoCatalog
          /\ last'.op = "load_error"
          /\ last'.outcome = load_images(images).error
          /\ file' = file
          /\ ss' = ss
          /\ recorded' = recorded]_vars

\* main() has returned on an images.csv without rows.
C14_Witness ==
    /\ last.op = "load_error"
    /\ images = ImagesCsv(<<>>)
    /\ file = NoFile

\* C15: the read operations (load_votes, get_user_vote_summary and
\* get_aggregate_stats, which the end screen calls) leave votes.csv as it
\* is, whether it holds rows, holds none or does not exist.
C15_ReadsChangeNothing ==
    [][last'.op \in {"end_screen", "stats"} =>
          /\ file' = file
          /\ load_votes(file') = load_votes(file)]_vars

\* The read operations have run on an absent store, which is still absent.
C15_Witness ==
    /\ last.op = "end_screen"
    /\ last.pre.kind = "absent"
    /\ file = NoFile

\* The read operations have run on a store with rows.
C15_WitnessPopulated ==
    /\ last.op = "end_screen"
    /\ last.pre.n = 2
    /\ Len(StoreRows(file)) = 2

\* The row is the one of the call's pair, under the id as the call gave it
\* or as read_csv gives it back.
OfPair(row, c) ==
    row.session_id = c.s /\ row.image_id \in {c.i, NumStr(c.i)}

\* The save_vote call c found the rows `pre` and left the rows `post`: the
\* rows of other pairs are as they were and where they were; a row of the
\* call's pair has the new vote and timestamp and nothing else new; the
\* store has one row more, the last, exactly when the pair had not been
\* recorded before.
FrameKept(pre, post, c) ==
    /\ Len(post) >= Len(pre)
    /\ \A k \in DOMAIN pre :
          post[k] = IF OfPair(pre[k], c)
                    THEN [pre[k] EXCEPT !.vote = c.v, !.timestamp = c.ts]
                    ELSE pre[k]
    /\ IF c.was # {}
       THEN Len(post) = Len(pre)
       ELSE /\ Len(post) = Len(pre) + 1
            /\ OfPair(post[Len(post)], c)
            /\ post[Len(post)].vote = c.v
            /\ post[Len(post)].timestamp = c.ts
            /\ post[Len(post)].user_name \in Names

\* C16: save_vote(s, name, i, v) changes the row for (s, i) and nothing
\* else: other rows and the order stay; an existing row gets the vote and
\* the timestamp only; a new row goes behind all existing rows.
C16_OnlyThePairChanges ==
    [][(last'.op = "save" /\ last'.outcome = "ok") =>
          FrameKept(StoreRows(file), StoreRows(file'), last')]_vars

\* C16 for ids that are not numerals (not a claim's formula).
C16_ForPlainIds ==
    [][(last'.op = "save" /\ last'.outcome = "ok"
          /\ last'.i \notin NumeralIds) =>
          FrameKept(StoreRows(file), StoreRows(file'), last')]_vars

\* C17: after a clear-all-votes no vote from before the clear is in the
\* store: every row of the store is of a pair some save_vote call has
\* written back since the store was last cleared (`recorded` is emptied by
\* the clear and gets the pair of every write-back).
C17_ClearedVotesStayGone ==
    \A k \in DOMAIN StoreRows(file) :
        \E c \in recorded : OfPair(StoreRows(file)[k], c)

\* Within a session: current_index never goes down and moves only on a skip
\* or a vote that was saved, by one; save_vote is called only for the item
\* at current_index, which is inside the catalog.
IndexSteps ==
    /\ ss'.session_id = ss.session_id =>
          /\ ss'.current_index >= ss.current_index
          /\ ss'.current_index # ss.current_index =>
                \/ last'.op = "skip"
                \/ last'.op = "save" /\ last'.outcome = "ok"
    /\ (last'.op = "skip" \/ (last'.op = "save" /\ last'.outcome = "ok")) =>
          /\ ss'.session_id = ss.session_id
          /\ ss'.current_index = ss.current_index + 1
    /\ last'.op = "save" =>
          /\ last'.s = ss.session_id
          /\ ss.current_index < Len(ss.catalog)
          /\ last'.i = ss.catalog[ss.current_index + 1]

\* C18, amended: ... hence at most one save_vote call per session and
\* catalog position returns (a call that raised leaves current_index where
\* it was, and the voter may vote on that item again), and none is made for
\* a position at or beyond the catalog length.
C18_OneSavedVotePerPosition ==
    [][/\ IndexSteps
       /\ (last'.op = "save" /\ last'.outcome = "ok") => last'.was = {}]_vars

\* A vote saved for the first item by a session whose earlier call for that
\* item raised: the clock has been read twice, the index moved once.
C18_Witness ==
    /\ last.op = "save"
    /\ last.outcome = "ok"
    /\ ss.session_id = "s1"
    /\ ss.current_index = 1
    /\ now = 2

\* C18 as stated: ... hence a session calls save_vote at most once per
\* catalog position: two calls in a row of one session are for two items.
C18_AsStated ==
    [][/\ IndexSteps
       /\ (last'.op = "save" /\ last.op = "save" /\ last'.s = last.s) =>
             last'.i # last.i]_vars

\* All rows of one session carry one name.
OneNamePerSession ==
    \A j, k \in DOMAIN StoreRows(file) :
        StoreRows(file)[j].session_id = StoreRows(file)[k].session_id
            => StoreRows(file)[j].user_name = StoreRows(file)[k].user_name

\* A vote is recorded only for a started, unfinished session that has a
\* name; within a session the name is set once, from none, and replaced only
\* by 'View Results', which finishes the session; a finished session stays
\* finished; a restart takes an id no session had and no name.
NameSteps ==
    /\ last'.op = "save" =>
          ss.started /\ ~ss.finished /\ ss.user_name \in Names
    /\ (ss'.session_id = ss.session_id /\ ss'.user_name # ss.user_name) =>
          \/ last'.op = "start" /\ ss.user_name = ""
          \/ last'.op = "view_results" /\ ss'.finished
    /\ (ss'.session_id = ss.session_id /\ ss.finished) => ss'.finished
    /\ ss'.session_id # ss.session_id =>
          /\ last'.op = "restart"
          /\ ss'.session_id \notin issued
          /\ ss'.user_name = ""

FinishSteps ==
    /\ (~ss.finished /\ ss'.finished /\ last'.op # "view_results") =>
          /\ last'.op = "done"
          /\ ss.current_index = Len(ss.catalog)
    /\ (ss.finished /\ ~ss'.finished) => last'.op = "restart"
    /\ ss.finished => last'.op \notin {"save", "skip"}

\* C20: a started session whose voter keeps deciding reaches the end
\* screen; unless 'View Results' was used, it is finished exactly when
\* current_index (the number of its decisions) is the catalog's length n,
\* n >= 1; once finished it stays finished and records no vote until
\* reset_session.
C20_EndsAfterNDecisions ==
    /\ [](Screen # "error" => Len(ss.catalog) >= 1)
    /\ []((ss.finished /\ ss.user_name # "Admin") =>
             ss.current_index = Len(ss.catalog))
    /\ [][FinishSteps]_vars
    /\ (Screen = "voting" ~> Screen = "end")

\* A voter's session has finished on a catalog of two items.
C20_Witness ==
    /\ last.op = "done"
    /\ ss.finished
    /\ ss.user_name \in Names
    /\ Len(ss.catalog) = 2
    /\ ss.current_index = 2
====
